---- MODULE Spec2Model ----
(***************************************************************************)
(* The fixed-size thread pool of "21) Web Server/src/lib.rs":              *)
(* ThreadPool::new, ThreadPool::execute, Drop for ThreadPool and the       *)
(* receive/execute loop that Worker::new spawns, over an mpsc channel      *)
(* whose receiver sits behind Arc<Mutex<..>>.                              *)
(***************************************************************************)
EXTENDS Integers, Sequences, FiniteSets, TLC

\* Bounds of the model.
MaxSize == 2            \* ThreadPool::new is called with a size in 0..MaxSize
MaxTasks == 3           \* at most MaxTasks calls of execute
MaxDropCalls == 2       \* the body of drop is entered at most MaxDropCalls times
MaxTexts == 3           \* at most MaxTexts calls of Post::add_text
MaxQuota == 20          \* LimitTracker: max is at most MaxQuota, values one more
MaxSets == 2            \* LimitTracker: at most MaxSets calls of set_value
NumThreads == 4         \* threads that increment the counter (10 in the program)

WorkerIds == 0 .. (MaxSize - 1)
TaskIds == 1 .. MaxTasks

\* What a closure passed to execute does when it is called: it returns,
\* it panics, or it never returns.
TaskKinds == {"ok", "panic", "loop"}

\* Values of `message` in the worker loop (Result<Job, RecvError>), and the
\* job a worker owns while it runs it.
NoMessage == [tag |-> "None", job |-> 0]
OkMessage(t) == [tag |-> "Ok", job |-> t]
ErrMessage == [tag |-> "Err", job |-> 0]

VARIABLES
    size,           \* the argument of ThreadPool::new
    poolPc,         \* position of the caller in ThreadPool::new / pool state
    chanCreated,    \* mpsc::channel() has been called
    senderAlive,    \* the Sender exists (local of new, then self.sender = Some)
    arcCount,       \* strong count of Arc<Mutex<Receiver<Job>>>
    receiverAlive,  \* the Receiver has not been dropped
    workers,        \* self.workers: the ids of the Vec<Worker>, in order
    wpc,            \* position of each worker thread
    message,        \* each worker's `message` / the job it owns
    mutexHolder,    \* the workers that hold the MutexGuard of the receiver
    poisoned,       \* the receiver mutex is poisoned
    queue,          \* the channel's buffer of jobs
    kinds,          \* kinds[t]: behaviour of the t-th closure given to execute
    enqueued,       \* history: jobs in the order send() put them in the buffer
    claimed,        \* history: jobs in the order recv() returned them
    started,        \* history: how many times job() was called for each job
    finished,       \* history: jobs in the order job() returned
    panickedJobs,   \* history: jobs whose call panicked
    discarded,      \* history: jobs dropped without having been called
    executePanics,  \* number of execute calls that panicked
    dropPc,         \* position of the caller in Drop::drop
    dropCalls,      \* number of times the body of Drop::drop was entered
    draining,       \* the workers the drain(..) iterator has yet to yield
    joined,         \* history: workers in the order join() returned for them
    postState,      \* Post.state: the variant of the boxed State, or "None"
    postContent,    \* Post.content: the String, as a sequence of characters
    postAdded,      \* history: the texts given to Post::add_text, in order
    postRead,       \* what the latest call of Post::content did
    postCall,       \* history: the method of Post called last
    altKind,        \* alternate_post: the type of the value the caller owns
    altContent,     \* alternate_post: the content field of that value
    altCount,       \* alternate_post: number of add_text calls made on it
    altRead,        \* alternate_post: what the latest call of content gave
    counterPc,      \* 16.3: position of main in the counter block
    counter,        \* 16.3: the integer inside the Mutex
    counterHolder,  \* 16.3: the threads that hold a MutexGuard of counter
    handles,        \* 16.3: the vec of JoinHandles, as thread ids
    handlesJoined,  \* 16.3: how many handles the join loop has joined
    tpc,            \* 16.3: position of each spawned thread
    num,            \* 16.3: the value each thread read through its guard
    msgPc,          \* 16.2: position of main in the multiple-transmitters block
    txs,            \* 16.2: the transmitters that have not been dropped
    ppc,            \* 16.2: position of the thread that owns each transmitter
    sentCount,      \* 16.2: how many of its vals each thread has sent
    msgBuffer,      \* 16.2: the channel's buffer
    received,       \* 16.2: history: what the receiving loop got, in order
    trackerMade,    \* 15.5: LimitTracker::new has been called
    trackerMax,     \* 15.5: LimitTracker.max
    trackerValue,   \* 15.5: LimitTracker.value
    sentMessages,   \* 15.5: MockMessenger.sent_messages
    setArg,         \* 15.5: history: the argument of the latest set_value
    setCalls        \* 15.5: history: number of calls of set_value

\* The variables of the thread pool (21) Web Server) and of the blog post
\* (18.3 OOP Design Pattern); the two programs share nothing.
threadPoolVars ==
    <<size, poolPc, chanCreated, senderAlive, arcCount, receiverAlive,
      workers, wpc, message, mutexHolder, poisoned, queue, kinds,
      enqueued, claimed, started, finished, panickedJobs, discarded,
      executePanics, dropPc, dropCalls, draining, joined>>
postVars == <<postState, postContent, postAdded, postRead, postCall>>
altVars == <<altKind, altContent, altCount, altRead>>

counterVars ==
    <<counterPc, counter, counterHolder, handles, handlesJoined, tpc, num>>

messageVars == <<msgPc, txs, ppc, sentCount, msgBuffer, received>>

trackerVars ==
    <<trackerMade, trackerMax, trackerValue, sentMessages, setArg, setCalls>>

vars == <<threadPoolVars, postVars, altVars, counterVars, messageVars,
          trackerVars>>

\* What a step of the thread pool leaves alone, and what a step of the blog
\* post leaves alone.
outsidePool ==
    <<postVars, altVars, counterVars, messageVars,
      trackerVars>>
outsidePost ==
    <<threadPoolVars, altVars, counterVars, messageVars,
      trackerVars>>
outsideAlt ==
    <<threadPoolVars, postVars, counterVars, messageVars,
      trackerVars>>
outsideCounter ==
    <<threadPoolVars, postVars, altVars, messageVars,
      trackerVars>>
outsideTracker ==
    <<threadPoolVars, postVars, altVars, counterVars, messageVars>>
outsideMessages ==
    <<threadPoolVars, postVars, altVars, counterVars,
      trackerVars>>

poolVars == <<size, poolPc, chanCreated, workers>>
dropVars == <<dropPc, dropCalls, draining, joined>>
histVars == <<enqueued, claimed, started, finished, panickedJobs>>
\* Post.content() has not been called.
NotRead == [tag |-> "NotRead", value |-> << >>]
\* Post.content() returned the string v.
Returned(v) == [tag |-> "Returned", value |-> v]
\* Post.content() panicked at the unwrap of a state that is None.
ReadPanicked == [tag |-> "Panicked", value |-> << >>]

\* Post::new(): the state is Some(Draft), the content is the empty String.
PostNew ==
    /\ postState = "Draft"
    /\ postContent = << >>
    /\ postAdded = << >>
    /\ postRead = NotRead
    /\ postCall = "new"

\* alternate_post::Post::new() gives a DraftPost with an empty content.
AltNew ==
    /\ altKind = "DraftPost"
    /\ altContent = << >>
    /\ altCount = 0
    /\ altRead = NotRead

ThreadIds == 1 .. NumThreads

\* let counter = Arc::new(Mutex::new(0)); let mut handles = vec![];
CounterNew ==
    /\ counterPc = "spawn"
    /\ counter = 0
    /\ counterHolder = {}
    /\ handles = << >>
    /\ handlesJoined = 0
    /\ tpc = [i \in ThreadIds |-> "unspawned"]
    /\ num = [i \in ThreadIds |-> 0]

\* The two transmitters, named as in main.
Transmitters == {"tx1", "tx"}

\* let (tx, rx) = mpsc::channel(); let tx1 = tx.clone();
MessagesNew ==
    /\ msgPc = "spawn_tx1"
    /\ txs = Transmitters
    /\ ppc = [p \in Transmitters |-> "unspawned"]
    /\ sentCount = [p \in Transmitters |-> 0]
    /\ msgBuffer = << >>
    /\ received = << >>

\* No LimitTracker has been made and the mock messenger has recorded nothing.
TrackerNone ==
    /\ trackerMade = FALSE
    /\ trackerMax = 0
    /\ trackerValue = 0
    /\ sentMessages = << >>
    /\ setArg = 0
    /\ setCalls = 0

Init ==
    /\ PostNew
    /\ AltNew
    /\ CounterNew
    /\ MessagesNew
    /\ TrackerNone
    /\ size \in 0 .. MaxSize
    /\ poolPc = "new_assert"
    /\ chanCreated = FALSE
    /\ senderAlive = FALSE
    /\ arcCount = 0
    /\ receiverAlive = FALSE
    /\ workers = << >>
    /\ wpc = [w \in WorkerIds |-> "unspawned"]
    /\ message = [w \in WorkerIds |-> NoMessage]
    /\ mutexHolder = {}
    /\ poisoned = FALSE
    /\ queue = << >>
    /\ kinds = << >>
    /\ enqueued = << >>
    /\ claimed = << >>
    /\ started = [t \in TaskIds |-> 0]
    /\ finished = << >>
    /\ panickedJobs = {}
    /\ discarded = {}
    /\ executePanics = 0
    /\ dropPc = "idle"
    /\ dropCalls = 0
    /\ draining = << >>
    /\ joined = << >>

----------------------------------------------------------------------------
\* The thread pool: src/21) Web Server/src/lib.rs

\* The elements of a sequence.
Range(s) == {s[i] : i \in 1 .. Len(s)}

\* Number of occurrences of x in s.
Count(s, x) == Cardinality({i \in 1 .. Len(s) : s[i] = x})

----------------------------------------------------------------------------
\* The channel and the shared receiver

\* One clone of the receiver Arc is dropped: the local of new when new
\* returns, a worker's clone when its thread ends and its closure is dropped.
\* The last clone drops the Receiver, which discards the jobs still in the
\* buffer.
ArcDrop ==
    /\ arcCount' = arcCount - 1
    /\ IF arcCount - 1 = 0
          THEN /\ receiverAlive' = FALSE
               /\ discarded' = discarded \cup Range(queue)
               /\ queue' = << >>
          ELSE UNCHANGED <<receiverAlive, discarded, queue>>

----------------------------------------------------------------------------
\* ThreadPool::new

\* The assertion written as `size >= 0`, which no usize fails.
SizeOkNonNegative(n) == n >= 0

\* assert!(size > 0)
SizeOk(n) == n > 0

NewAssert ==
    /\ poolPc = "new_assert"
    /\ poolPc' = IF SizeOk(size) THEN "new_channel" ELSE "new_panicked"
    /\ UNCHANGED <<size, chanCreated, senderAlive, arcCount, receiverAlive,
                   workers, wpc, message, mutexHolder, poisoned, queue, kinds,
                   discarded, executePanics>>
    /\ UNCHANGED histVars
    /\ UNCHANGED dropVars
    /\ UNCHANGED outsidePool

\* let (sender, receiver) = mpsc::channel();
\* let receiver = Arc::new(Mutex::new(receiver));
NewChannel ==
    /\ poolPc = "new_channel"
    /\ poolPc' = "new_spawn"
    /\ chanCreated' = TRUE
    /\ senderAlive' = TRUE
    /\ receiverAlive' = TRUE
    /\ arcCount' = 1
    /\ UNCHANGED <<size, workers, wpc, message, mutexHolder, poisoned, queue,
                   kinds, discarded, executePanics>>
    /\ UNCHANGED histVars
    /\ UNCHANGED dropVars
    /\ UNCHANGED outsidePool

\* The loop written as `for id in 0..=size`: one worker too many.
SpawnMoreInclusive(ws, n) == Len(ws) <= n /\ Len(ws) < MaxSize

\* The loop `for id in 0..size`: the id of its next iteration, and whether
\* there is a next iteration.
NextWorkerId(ws) == Len(ws)

SpawnMore(ws, n) == NextWorkerId(ws) < n

\* One iteration of the loop: workers.push(Worker::new(id, Arc::clone(&receiver)))
\* Worker::new spawns the thread, which starts at the top of its loop.
NewSpawn ==
    /\ poolPc = "new_spawn"
    /\ SpawnMore(workers, size)
    /\ LET id == NextWorkerId(workers) IN
        /\ workers' = Append(workers, id)
        /\ wpc' = [wpc EXCEPT ![id] = "lock"]
    /\ arcCount' = arcCount + 1
    /\ UNCHANGED <<size, poolPc, chanCreated, senderAlive, receiverAlive,
                   message, mutexHolder, poisoned, queue, kinds, discarded,
                   executePanics>>
    /\ UNCHANGED histVars
    /\ UNCHANGED dropVars
    /\ UNCHANGED outsidePool

\* ThreadPool { workers, sender: Some(sender) }; the local `receiver` Arc of
\* new is dropped on return.
NewReturn ==
    /\ poolPc = "new_spawn"
    /\ ~SpawnMore(workers, size)
    /\ poolPc' = "open"
    /\ ArcDrop
    /\ UNCHANGED <<size, chanCreated, senderAlive, workers, wpc, message,
                   mutexHolder, poisoned, kinds, executePanics>>
    /\ UNCHANGED histVars
    /\ UNCHANGED dropVars
    /\ UNCHANGED outsidePool

----------------------------------------------------------------------------
\* ThreadPool::execute

\* A channel that puts the new job at the front of the buffer.
SendFront(q, t) == <<t>> \o q

\* Sender::send on the unbounded channel: the job goes to the back of the
\* buffer.
Send(q, t) == Append(q, t)

\* A bounded channel (mpsc::sync_channel(1)): send waits while the buffer is
\* full.
SendReadyBounded(q) == Len(q) < 1

\* mpsc::channel() is unbounded: send never waits for room in the buffer.
SendReady(q) == TRUE

\* An execute that ignores a missing sender and the result of send.
ExecutePanicsNever(sender, receiver) == FALSE

\* An execute whose send succeeds whenever the pool still has its sender,
\* as if the pool itself kept the Receiver alive.
ExecutePanicsWithoutSender(sender, receiver) == ~sender

\* self.sender.as_ref().unwrap().send(job).unwrap() panics at the first
\* unwrap when self.sender is None, and at the second when send fails, which
\* it does when the Receiver has been dropped.
ExecutePanics(sender, receiver) == ~sender \/ ~receiver

\* The body of execute.  When it panics the job is dropped with the
\* SendError (or with the unwinding frame) without having been called.
ExecuteCall(k) ==
    /\ Len(kinds) < MaxTasks
    /\ SendReady(queue)
    /\ LET t == Len(kinds) + 1 IN
        /\ kinds' = Append(kinds, k)
        /\ IF ~ExecutePanics(senderAlive, receiverAlive)
              THEN /\ queue' = Send(queue, t)
                   /\ enqueued' = Append(enqueued, t)
                   /\ UNCHANGED <<discarded, executePanics>>
              ELSE /\ discarded' = discarded \cup {t}
                   /\ executePanics' = executePanics + 1
                   /\ UNCHANGED <<queue, enqueued>>
    /\ UNCHANGED <<senderAlive, arcCount, receiverAlive, wpc, message,
                   mutexHolder, poisoned, claimed, started, finished,
                   panickedJobs>>
    /\ UNCHANGED poolVars
    /\ UNCHANGED dropVars
    /\ UNCHANGED outsidePool

\* execute on a pool that new has returned and that has not been dropped.
Execute(k) ==
    /\ poolPc = "open"
    /\ dropPc = "idle"
    /\ ExecuteCall(k)

\* execute on a pool whose drop has run: drop has taken the sender out of
\* self.sender.  The borrow checker gives safe code no such call; this is
\* the body of execute in the state that drop leaves behind.
ExecuteAfterDrop(k) ==
    /\ poolPc = "open"
    /\ dropPc = "done"
    /\ ExecuteCall(k)

----------------------------------------------------------------------------
\* The thread spawned by Worker::new

\* A lock that never makes its caller wait.
LockFreeAlways(holders) == TRUE

\* Mutex::lock can be taken when no guard is out.
LockFree(holders) == holders = {}

\* receiver.lock().unwrap(): blocks while another worker holds the guard;
\* on a poisoned mutex lock() returns Err and the unwrap panics.
Lock(w) ==
    /\ wpc[w] = "lock"
    /\ LockFree(mutexHolder)
    /\ IF poisoned
          THEN /\ wpc' = [wpc EXCEPT ![w] = "panicked"]
               /\ ArcDrop
               /\ UNCHANGED mutexHolder
          ELSE /\ wpc' = [wpc EXCEPT ![w] = "recv"]
               /\ mutexHolder' = mutexHolder \cup {w}
               /\ UNCHANGED <<arcCount, receiverAlive, discarded, queue>>
    /\ UNCHANGED <<senderAlive, message, poisoned, kinds, executePanics>>
    /\ UNCHANGED poolVars
    /\ UNCHANGED histVars
    /\ UNCHANGED dropVars
    /\ UNCHANGED outsidePool

\* A recv that the drop of the Sender does not wake.
RecvReadyJobsOnly(q, sender) == q # << >>

\* Receiver::recv returns when there is a job in the buffer or the Sender
\* has been dropped.
RecvReady(q, sender) == q # << >> \/ ~sender

\* A recv that reports the disconnection before it looks at the buffer.
RecvOutcomeDisconnectFirst(q, sender) ==
    IF q # << >> /\ sender
       THEN [msg |-> OkMessage(Head(q)), rest |-> Tail(q)]
       ELSE [msg |-> ErrMessage, rest |-> q]

\* A recv that returns the front job and leaves it in the buffer.
RecvOutcomePeek(q, sender) ==
    IF q # << >>
       THEN [msg |-> OkMessage(Head(q)), rest |-> q]
       ELSE [msg |-> ErrMessage, rest |-> q]

\* A recv that takes the job at the back of the buffer.
RecvOutcomeLifo(q, sender) ==
    IF q # << >>
       THEN [msg |-> OkMessage(q[Len(q)]), rest |-> SubSeq(q, 1, Len(q) - 1)]
       ELSE [msg |-> ErrMessage, rest |-> q]

\* What recv returns and what it leaves in the buffer: the job at the front
\* while there is one, also after the Sender has been dropped; Err otherwise.
RecvOutcome(q, sender) ==
    IF q # << >>
       THEN [msg |-> OkMessage(Head(q)), rest |-> Tail(q)]
       ELSE [msg |-> ErrMessage, rest |-> q]

\* The guard bound to a variable that lives through the match, as in
\* `while let Ok(job) = receiver.lock().unwrap().recv() { job(); }`.
GuardKeptThroughMatch(holders, w) == holders

\* The MutexGuard is a temporary of the statement
\* `let message = receiver.lock().unwrap().recv();` and is dropped at its end.
GuardAfterRecv(holders, w) == holders \ {w}

\* .recv() under the guard: returns the job at the front of the buffer,
\* blocks while the buffer is empty and the Sender exists, returns Err when
\* the buffer is empty and the Sender has been dropped.  The MutexGuard is a
\* temporary of the statement `let message = receiver.lock().unwrap().recv();`
\* and is dropped when recv has returned and message is bound.
Recv(w) ==
    /\ wpc[w] = "recv"
    /\ RecvReady(queue, senderAlive)
    /\ LET r == RecvOutcome(queue, senderAlive) IN
        /\ message' = [message EXCEPT ![w] = r.msg]
        /\ queue' = r.rest
        /\ claimed' = IF r.msg.tag = "Ok" THEN Append(claimed, r.msg.job)
                                          ELSE claimed
    /\ mutexHolder' = GuardAfterRecv(mutexHolder, w)
    /\ wpc' = [wpc EXCEPT ![w] = "match"]
    /\ UNCHANGED <<senderAlive, arcCount, receiverAlive, poisoned, kinds,
                   enqueued, started, finished, panickedJobs, discarded,
                   executePanics>>
    /\ UNCHANGED poolVars
    /\ UNCHANGED dropVars
    /\ UNCHANGED outsidePool

\* A worker that hands the job to a thread of its own and goes round its
\* loop without waiting for it.
StartJobDetached(w) ==
    /\ wpc[w] = "match"
    /\ message[w].tag = "Ok"
    /\ wpc' = [wpc EXCEPT ![w] = "lock"]
    /\ started' = [started EXCEPT ![message[w].job] = @ + 1]
    /\ message' = [message EXCEPT ![w] = NoMessage]
    /\ UNCHANGED <<senderAlive, arcCount, receiverAlive, mutexHolder,
                   poisoned, queue, kinds, enqueued, claimed, finished,
                   panickedJobs, discarded, executePanics>>
    /\ UNCHANGED poolVars
    /\ UNCHANGED dropVars
    /\ UNCHANGED outsidePool

\* Ok(job) => { println!(..); job() }: the call begins.
StartJob(w) ==
    /\ wpc[w] = "match"
    /\ message[w].tag = "Ok"
    /\ wpc' = [wpc EXCEPT ![w] = "exec"]
    /\ started' = [started EXCEPT ![message[w].job] = @ + 1]
    /\ UNCHANGED <<senderAlive, arcCount, receiverAlive, message, mutexHolder,
                   poisoned, queue, kinds, enqueued, claimed, finished,
                   panickedJobs, discarded, executePanics>>
    /\ UNCHANGED poolVars
    /\ UNCHANGED dropVars
    /\ UNCHANGED outsidePool

\* A worker whose job returns only when no earlier job is still running, as
\* if results were committed in the order of submission.
FinishJobInOrder(w) ==
    /\ wpc[w] = "exec"
    /\ kinds[message[w].job] = "ok"
    /\ \A v \in WorkerIds \ {w} :
          wpc[v] = "exec" => message[v].job > message[w].job
    /\ finished' = Append(finished, message[w].job)
    /\ message' = [message EXCEPT ![w] = NoMessage]
    /\ mutexHolder' = mutexHolder \ {w}
    /\ wpc' = [wpc EXCEPT ![w] = "lock"]
    /\ UNCHANGED <<senderAlive, arcCount, receiverAlive, poisoned,
                   queue, kinds, enqueued, claimed, started, panickedJobs,
                   discarded, executePanics>>
    /\ UNCHANGED poolVars
    /\ UNCHANGED dropVars
    /\ UNCHANGED outsidePool

\* A worker without the loop: its thread ends when its first job returns.
FinishJobOnce(w) ==
    /\ wpc[w] = "exec"
    /\ kinds[message[w].job] = "ok"
    /\ finished' = Append(finished, message[w].job)
    /\ message' = [message EXCEPT ![w] = NoMessage]
    /\ mutexHolder' = mutexHolder \ {w}
    /\ wpc' = [wpc EXCEPT ![w] = "exited"]
    /\ ArcDrop
    /\ UNCHANGED <<senderAlive, poisoned, kinds, enqueued, claimed, started,
                   panickedJobs, executePanics>>
    /\ UNCHANGED poolVars
    /\ UNCHANGED dropVars
    /\ UNCHANGED outsidePool

\* job() returns; the worker goes round its loop.  What the iteration still
\* owns is dropped at the end of the loop body.
FinishJob(w) ==
    /\ wpc[w] = "exec"
    /\ kinds[message[w].job] = "ok"
    /\ finished' = Append(finished, message[w].job)
    /\ message' = [message EXCEPT ![w] = NoMessage]
    /\ mutexHolder' = mutexHolder \ {w}
    /\ wpc' = [wpc EXCEPT ![w] = "lock"]
    /\ UNCHANGED <<senderAlive, arcCount, receiverAlive, poisoned,
                   queue, kinds, enqueued, claimed, started, panickedJobs,
                   discarded, executePanics>>
    /\ UNCHANGED poolVars
    /\ UNCHANGED dropVars
    /\ UNCHANGED outsidePool

\* A worker that catches the panic of its job (catch_unwind) and goes round
\* its loop.
PanicJobCaught(w) ==
    /\ wpc[w] = "exec"
    /\ kinds[message[w].job] = "panic"
    /\ panickedJobs' = panickedJobs \cup {message[w].job}
    /\ message' = [message EXCEPT ![w] = NoMessage]
    /\ wpc' = [wpc EXCEPT ![w] = "lock"]
    /\ UNCHANGED <<senderAlive, arcCount, receiverAlive, mutexHolder, poisoned,
                   queue, kinds, enqueued, claimed, started, finished,
                   discarded, executePanics>>
    /\ UNCHANGED poolVars
    /\ UNCHANGED dropVars
    /\ UNCHANGED outsidePool

\* job() panics: nothing catches it, the thread unwinds and ends.  A guard
\* held during the unwinding would poison the mutex.
PanicJob(w) ==
    /\ wpc[w] = "exec"
    /\ kinds[message[w].job] = "panic"
    /\ panickedJobs' = panickedJobs \cup {message[w].job}
    /\ message' = [message EXCEPT ![w] = NoMessage]
    /\ wpc' = [wpc EXCEPT ![w] = "panicked"]
    /\ poisoned' = (poisoned \/ w \in mutexHolder)
    /\ mutexHolder' = mutexHolder \ {w}
    /\ ArcDrop
    /\ UNCHANGED <<senderAlive, kinds, enqueued, claimed, started, finished,
                   executePanics>>
    /\ UNCHANGED poolVars
    /\ UNCHANGED dropVars
    /\ UNCHANGED outsidePool

\* Err(_) => { println!(..); break; }: the closure returns, the thread ends.
Disconnected(w) ==
    /\ wpc[w] = "match"
    /\ message[w].tag = "Err"
    /\ wpc' = [wpc EXCEPT ![w] = "exited"]
    /\ message' = [message EXCEPT ![w] = NoMessage]
    /\ ArcDrop
    /\ UNCHANGED <<senderAlive, mutexHolder, poisoned, kinds, executePanics>>
    /\ UNCHANGED poolVars
    /\ UNCHANGED histVars
    /\ UNCHANGED dropVars
    /\ UNCHANGED outsidePool

WorkerStep(w) ==
    \/ Lock(w)
    \/ Recv(w)
    \/ StartJob(w)
    \/ FinishJob(w)
    \/ PanicJob(w)
    \/ Disconnected(w)

----------------------------------------------------------------------------
\* Drop for ThreadPool

\* The statement written as drop(self.sender.take().unwrap()).
TakeOkWhenSome(sender) == sender

\* self.sender.take() gives None when the sender has been taken before, and
\* drop(None) does nothing: the statement cannot fail.
TakeOk(sender) == TRUE

\* drop(self.sender.take())
DropSenderBody ==
    /\ senderAlive' = FALSE
    /\ dropPc' = IF TakeOk(senderAlive) THEN "drain" ELSE "panicked"
    /\ dropCalls' = dropCalls + 1
    /\ UNCHANGED <<arcCount, receiverAlive, wpc, message, mutexHolder,
                   poisoned, queue, kinds, discarded, executePanics, draining,
                   joined>>
    /\ UNCHANGED poolVars
    /\ UNCHANGED histVars
    /\ UNCHANGED outsidePool

\* The pool goes out of scope: drop is entered.
DropSender ==
    /\ poolPc = "open"
    /\ dropPc = "idle"
    /\ DropSenderBody

\* The body of drop entered again on a pool whose drop has returned.  Safe
\* code cannot do this (a value is dropped once); this is the body of drop
\* in the state that its first run leaves behind.
DropAgain ==
    /\ poolPc = "open"
    /\ dropPc = "done"
    /\ dropCalls < MaxDropCalls
    /\ DropSenderBody

\* The loop written over self.workers.drain(..).rev().
DrainOrderReversed(ws) == [i \in 1 .. Len(ws) |-> ws[Len(ws) + 1 - i]]

\* drain(..) yields the workers in the order of the vec.
DrainOrder(ws) == ws

\* self.workers.drain(..): the vec is emptied, the iterator owns the workers.
DropDrain ==
    /\ dropPc = "drain"
    /\ draining' = DrainOrder(workers)
    /\ workers' = << >>
    /\ dropPc' = "join"
    /\ UNCHANGED <<size, poolPc, chanCreated, senderAlive, arcCount,
                   receiverAlive, wpc, message, mutexHolder, poisoned, queue,
                   kinds, discarded, executePanics, dropCalls, joined>>
    /\ UNCHANGED histVars
    /\ UNCHANGED outsidePool

\* A join that does not wait for the thread.
JoinReturnsAtOnce(w) == TRUE

\* JoinHandle::join returns once the thread has ended.
JoinReturns(w) == wpc[w] \in {"exited", "panicked"}

\* worker.thread.join().unwrap() for the next worker of the iterator: blocks
\* until the thread has ended; join returns Err for a thread that panicked
\* and the unwrap panics, which drops the iterator and the workers left in it.
DropJoin ==
    /\ dropPc = "join"
    /\ draining # << >>
    /\ JoinReturns(Head(draining))
    /\ IF wpc[Head(draining)] # "panicked"
          THEN /\ joined' = Append(joined, Head(draining))
               /\ draining' = Tail(draining)
               /\ UNCHANGED dropPc
          ELSE /\ dropPc' = "panicked"
               /\ draining' = << >>
               /\ UNCHANGED joined
    /\ UNCHANGED <<senderAlive, arcCount, receiverAlive, wpc, message,
                   mutexHolder, poisoned, queue, kinds, discarded,
                   executePanics, dropCalls>>
    /\ UNCHANGED poolVars
    /\ UNCHANGED histVars
    /\ UNCHANGED outsidePool

\* The iterator is exhausted: drop returns.
DropReturn ==
    /\ dropPc = "join"
    /\ draining = << >>
    /\ dropPc' = "done"
    /\ UNCHANGED <<senderAlive, arcCount, receiverAlive, wpc, message,
                   mutexHolder, poisoned, queue, kinds, discarded,
                   executePanics, dropCalls, draining, joined>>
    /\ UNCHANGED poolVars
    /\ UNCHANGED histVars
    /\ UNCHANGED outsidePool

\* The steps of the thread that owns the pool, once it is inside new or
\* inside drop.
CallerStep ==
    \/ NewAssert
    \/ NewChannel
    \/ NewSpawn
    \/ NewReturn
    \/ DropDrain
    \/ DropJoin
    \/ DropReturn

----------------------------------------------------------------------------
Next ==
    \/ NewAssert
    \/ NewChannel
    \/ NewSpawn
    \/ NewReturn
    \/ \E k \in TaskKinds : Execute(k)
    \/ \E w \in WorkerIds : Lock(w)
    \/ \E w \in WorkerIds : Recv(w)
    \/ \E w \in WorkerIds : StartJob(w)
    \/ \E w \in WorkerIds : FinishJob(w)
    \/ \E w \in WorkerIds : PanicJob(w)
    \/ \E w \in WorkerIds : Disconnected(w)
    \/ DropSender
    \/ DropDrain
    \/ DropJoin
    \/ DropReturn

Spec == Init /\ [][Next]_vars

\* Threads that can take a step do: the operating system schedules every
\* worker thread, and the thread that is inside new or drop keeps running.
\* Nothing obliges the caller to call execute or to drop the pool.
FairSpec ==
    /\ Spec
    /\ \A w \in WorkerIds : WF_vars(WorkerStep(w))
    /\ WF_vars(CallerStep)

\* The pool together with the calls that only code outside the borrow
\* checker's rules can make: execute after drop, and drop a second time.
NextAfterDrop ==
    \/ NewAssert
    \/ NewChannel
    \/ NewSpawn
    \/ NewReturn
    \/ \E k \in TaskKinds : Execute(k)
    \/ \E w \in WorkerIds : Lock(w)
    \/ \E w \in WorkerIds : Recv(w)
    \/ \E w \in WorkerIds : StartJob(w)
    \/ \E w \in WorkerIds : FinishJob(w)
    \/ \E w \in WorkerIds : PanicJob(w)
    \/ \E w \in WorkerIds : Disconnected(w)
    \/ DropSender
    \/ DropDrain
    \/ DropJoin
    \/ DropReturn
    \/ \E k \in TaskKinds : ExecuteAfterDrop(k)
    \/ DropAgain

SpecAfterDrop == Init /\ [][NextAfterDrop]_vars

----------------------------------------------------------------------------
\* The blog post: src/18) OOP in Rust/18.3 OOP Design Pattern/src/lib.rs

\* The texts given to add_text: the empty string, one character, two.
PostTexts == {<< >>, <<"a">>, <<"b", "c">>}

PostStates == {"Draft", "PendingReview", "Published"}

\* String::push_str appends the text to the string.
PushStr(content, text) == content \o text

\* State::request_review of Draft, PendingReview and Published.
StateRequestReview(s) ==
    CASE s = "Draft" -> "PendingReview"
      [] s = "PendingReview" -> "PendingReview"
      [] s = "Published" -> "Published"

\* An approve that publishes a draft without review.
StateApproveDraftToo(s) == "Published"

\* State::approve of Draft, PendingReview and Published.
StateApprove(s) ==
    CASE s = "Draft" -> "Draft"
      [] s = "PendingReview" -> "Published"
      [] s = "Published" -> "Published"

\* A default State::content that hands out the post's content.
StateContentOfAnyState(s, content) == content

\* State::content: Published overrides it to give the post's content, Draft
\* and PendingReview inherit the default, which gives "".
StateContent(s, content) == IF s = "Published" THEN content ELSE << >>

\* Post::add_text
AddText(text) ==
    /\ Len(postAdded) < MaxTexts
    /\ postContent' = PushStr(postContent, text)
    /\ postAdded' = Append(postAdded, text)
    /\ postCall' = "add_text"
    /\ UNCHANGED <<postState, postRead>>
    /\ UNCHANGED outsidePost

\* A request_review that stores the successor only for a draft and leaves
\* the Option empty otherwise.
RequestReviewTakeOnly ==
    /\ postState' = IF postState = "Draft" THEN "PendingReview" ELSE "None"
    /\ postCall' = "request_review"
    /\ UNCHANGED <<postContent, postAdded, postRead>>
    /\ UNCHANGED outsidePost

\* Post::request_review: the state is taken out of the Option and, if there
\* was one, its successor is stored.
RequestReview ==
    /\ postState' = IF postState # "None" THEN StateRequestReview(postState)
                                          ELSE "None"
    /\ postCall' = "request_review"
    /\ UNCHANGED <<postContent, postAdded, postRead>>
    /\ UNCHANGED outsidePost

\* Post::approve
Approve ==
    /\ postState' = IF postState # "None" THEN StateApprove(postState)
                                          ELSE "None"
    /\ postCall' = "approve"
    /\ UNCHANGED <<postContent, postAdded, postRead>>
    /\ UNCHANGED outsidePost

\* Post::content: self.state.as_ref().unwrap().content(self)
Content ==
    /\ postRead' = IF postState = "None"
                     THEN ReadPanicked
                     ELSE Returned(StateContent(postState, postContent))
    /\ postCall' = "content"
    /\ UNCHANGED <<postState, postContent, postAdded>>
    /\ UNCHANGED outsidePost

PostNext ==
    \/ \E text \in PostTexts : AddText(text)
    \/ RequestReview
    \/ Approve
    \/ Content

\* A program without the thread pool.
NoPoolInit == Init /\ size = 0

\* A program that owns one Post and no thread pool.
PostInit == NoPoolInit

PostSpec == PostInit /\ [][PostNext]_vars

----------------------------------------------------------------------------
\* The blog post as three types:
\* src/18) OOP in Rust/18.3 OOP Design Pattern/src/alternate_post.rs

\* A request_review that builds the PendingReviewPost with a new String.
AltMoveContentLost(content) == << >>

\* `content: self.content`: the String is moved into the new value.
AltMoveContent(content) == content

\* DraftPost::add_text, only a DraftPost has it.  The caller gives it the
\* texts that the trait-object Post is given, in the same order.
AltAddText ==
    /\ altKind = "DraftPost"
    /\ altCount < Len(postAdded)
    /\ altContent' = PushStr(altContent, postAdded[altCount + 1])
    /\ altCount' = altCount + 1
    /\ UNCHANGED <<altKind, altRead>>
    /\ UNCHANGED outsideAlt

\* DraftPost::request_review consumes the DraftPost.
AltRequestReview ==
    /\ altKind = "DraftPost"
    /\ altKind' = "PendingReviewPost"
    /\ altContent' = AltMoveContent(altContent)
    /\ UNCHANGED <<altCount, altRead>>
    /\ UNCHANGED outsideAlt

\* PendingReviewPost::approve consumes the PendingReviewPost.
AltApprove ==
    /\ altKind = "PendingReviewPost"
    /\ altKind' = "Post"
    /\ altContent' = AltMoveContent(altContent)
    /\ UNCHANGED <<altCount, altRead>>
    /\ UNCHANGED outsideAlt

\* Post::content, only a Post has it.
AltContent ==
    /\ altKind = "Post"
    /\ altRead' = Returned(altContent)
    /\ UNCHANGED <<altKind, altContent, altCount>>
    /\ UNCHANGED outsideAlt

\* main uses both posts and gives them the same text.
TwoPostsNext ==
    \/ \E text \in PostTexts : AddText(text)
    \/ RequestReview
    \/ Approve
    \/ Content
    \/ AltAddText
    \/ AltRequestReview
    \/ AltApprove
    \/ AltContent

TwoPostsSpec == PostInit /\ [][TwoPostsNext]_vars

----------------------------------------------------------------------------
\* The shared counter: src/16) Concurrency/16.3 Shared State/src/main.rs

\* A lock that lets a thread in while another holds the guard.
CounterLockFreeAlways(holders) == TRUE

\* Mutex::lock returns when no guard is out.
CounterLockFree(holders) == holders = {}

\* for _ in 0..10 { Arc::clone; thread::spawn; handles.push(handle) }: one
\* turn of the loop; after the last one main goes on to the join loop.
CounterSpawn ==
    /\ counterPc = "spawn"
    /\ LET i == Len(handles) + 1 IN
        /\ tpc' = [tpc EXCEPT ![i] = "lock"]
        /\ handles' = Append(handles, i)
        /\ counterPc' = IF i = NumThreads THEN "join" ELSE "spawn"
    /\ UNCHANGED <<counter, counterHolder, handlesJoined, num>>
    /\ UNCHANGED outsideCounter

\* let mut num = counter.lock().unwrap();
ThreadLock(i) ==
    /\ tpc[i] = "lock"
    /\ CounterLockFree(counterHolder)
    /\ counterHolder' = counterHolder \cup {i}
    /\ tpc' = [tpc EXCEPT ![i] = "load"]
    /\ UNCHANGED <<counterPc, counter, handles, handlesJoined, num>>
    /\ UNCHANGED outsideCounter

\* *num += 1, the read of the old value.
ThreadLoad(i) ==
    /\ tpc[i] = "load"
    /\ num' = [num EXCEPT ![i] = counter]
    /\ tpc' = [tpc EXCEPT ![i] = "store"]
    /\ UNCHANGED <<counterPc, counter, counterHolder, handles, handlesJoined>>
    /\ UNCHANGED outsideCounter

\* *num += 1, the write of the new value; the closure then ends, its guard
\* is dropped and the thread ends.
ThreadStore(i) ==
    /\ tpc[i] = "store"
    /\ counter' = num[i] + 1
    /\ counterHolder' = counterHolder \ {i}
    /\ tpc' = [tpc EXCEPT ![i] = "ended"]
    /\ UNCHANGED <<counterPc, handles, handlesJoined, num>>
    /\ UNCHANGED outsideCounter

\* A join that returns while the thread is still running.
HandleJoinReturnsAtOnce(i) == TRUE

\* JoinHandle::join returns once the thread has ended.
HandleJoinReturns(i) == tpc[i] = "ended"

\* for handle in handles { handle.join().unwrap(); }: one turn of the loop;
\* after the last one main goes on to the assertion.
CounterJoin ==
    /\ counterPc = "join"
    /\ HandleJoinReturns(handles[handlesJoined + 1])
    /\ handlesJoined' = handlesJoined + 1
    /\ counterPc' = IF handlesJoined + 1 = Len(handles) THEN "assert" ELSE "join"
    /\ UNCHANGED <<counter, counterHolder, handles, tpc, num>>
    /\ UNCHANGED outsideCounter

\* assert_eq!(10, *counter.lock().unwrap());
CounterAssert ==
    /\ counterPc = "assert"
    /\ CounterLockFree(counterHolder)
    /\ counterPc' = IF counter = NumThreads THEN "passed" ELSE "failed"
    /\ UNCHANGED <<counter, counterHolder, handles, handlesJoined, tpc, num>>
    /\ UNCHANGED outsideCounter

CounterNext ==
    \/ CounterSpawn
    \/ \E i \in ThreadIds : ThreadLock(i)
    \/ \E i \in ThreadIds : ThreadLoad(i)
    \/ \E i \in ThreadIds : ThreadStore(i)
    \/ CounterJoin
    \/ CounterAssert

\* A program that runs the counter block only.
CounterSpec == NoPoolInit /\ [][CounterNext]_vars

----------------------------------------------------------------------------
\* Multiple transmitters: src/16) Concurrency/16.2 Message Passing/src/main.rs

\* The vals of the thread that owns tx1 and of the thread that owns tx.
Vals ==
    [tx1 |-> <<"hi", "from", "the", "thread">>,
     tx |-> <<"more", "messages", "for", "you">>]

\* The end of the iteration.
NoItem == [tag |-> "None", value |-> ""]
Item(v) == [tag |-> "Some", value |-> v]

\* thread::spawn(move || ...) with tx1 moved into the closure.
SpawnTx1 ==
    /\ msgPc = "spawn_tx1"
    /\ ppc' = [ppc EXCEPT !["tx1"] = "sending"]
    /\ msgPc' = "spawn_tx"
    /\ UNCHANGED <<txs, sentCount, msgBuffer, received>>
    /\ UNCHANGED outsideMessages

\* thread::spawn(move || ...) with tx moved into the closure.
SpawnTx ==
    /\ msgPc = "spawn_tx"
    /\ ppc' = [ppc EXCEPT !["tx"] = "sending"]
    /\ msgPc' = "recv"
    /\ UNCHANGED <<txs, sentCount, msgBuffer, received>>
    /\ UNCHANGED outsideMessages

\* for val in vals { tx.send(val).unwrap(); thread::sleep(..); }: one turn.
\* The receiver is alive for as long as a transmitter is, so send succeeds.
ProducerSend(p) ==
    /\ ppc[p] = "sending"
    /\ sentCount[p] < Len(Vals[p])
    /\ msgBuffer' = Append(msgBuffer, Vals[p][sentCount[p] + 1])
    /\ sentCount' = [sentCount EXCEPT ![p] = sentCount[p] + 1]
    /\ UNCHANGED <<msgPc, txs, ppc, received>>
    /\ UNCHANGED outsideMessages

\* The loop is over: the closure ends and its transmitter is dropped.
ProducerEnd(p) ==
    /\ ppc[p] = "sending"
    /\ sentCount[p] = Len(Vals[p])
    /\ ppc' = [ppc EXCEPT ![p] = "ended"]
    /\ txs' = txs \ {p}
    /\ UNCHANGED <<msgPc, sentCount, msgBuffer, received>>
    /\ UNCHANGED outsideMessages

\* An iterator that does not wait for a message (rx.try_iter()).
IterReadyAlways(q, senders) == TRUE

\* The iterator of the Receiver waits until there is a message in the buffer
\* or every transmitter has been dropped.
IterReady(q, senders) == q # << >> \/ senders = {}

\* An iterator that yields the newest message.
IterNextNewest(q) ==
    IF q # << >>
       THEN [item |-> Item(q[Len(q)]), rest |-> SubSeq(q, 1, Len(q) - 1)]
       ELSE [item |-> NoItem, rest |-> q]

\* What the iterator yields: the message at the front of the buffer, None
\* when the buffer is empty.
IterNext(q) ==
    IF q # << >>
       THEN [item |-> Item(Head(q)), rest |-> Tail(q)]
       ELSE [item |-> NoItem, rest |-> q]

\* for received in rx { println!(..) }: one turn of the loop, or its end.
ReceiveNext ==
    /\ msgPc = "recv"
    /\ IterReady(msgBuffer, txs)
    /\ LET r == IterNext(msgBuffer) IN
        /\ msgBuffer' = r.rest
        /\ IF r.item = NoItem
              THEN /\ msgPc' = "ended"
                   /\ UNCHANGED received
              ELSE /\ received' = Append(received, r.item.value)
                   /\ UNCHANGED msgPc
    /\ UNCHANGED <<txs, ppc, sentCount>>
    /\ UNCHANGED outsideMessages

\* The steps of main and of the thread that owns transmitter p.
MessagesMain == SpawnTx1 \/ SpawnTx \/ ReceiveNext
Producer(p) == ProducerSend(p) \/ ProducerEnd(p)

MessagesNext ==
    \/ SpawnTx1
    \/ SpawnTx
    \/ \E p \in Transmitters : ProducerSend(p)
    \/ \E p \in Transmitters : ProducerEnd(p)
    \/ ReceiveNext

\* A program that runs the multiple-transmitters block only; every thread
\* that can take a step is scheduled.
MessagesSpec ==
    /\ NoPoolInit
    /\ [][MessagesNext]_vars
    /\ WF_vars(MessagesMain)
    /\ \A p \in Transmitters : WF_vars(Producer(p))

----------------------------------------------------------------------------
\* The limit tracker: src/15) Smart Pointers/15.5 RefCell<T>/src/lib.rs

ErrorMessage == "Error: You are over your quota!"
UrgentMessage == "Urgent: You've used up 90% of your quota"
WarningMessage == "Warning: You've used up over 75% of your quota!"

\* self.value as f64 / self.max as f64.  The division of two floats does not
\* fail: x / 0.0 is infinite for x > 0 and 0.0 / 0.0 is NaN.  Otherwise the
\* quotient is kept as a fraction; for the integers of this model the f64
\* quotient compares with 1.0, 0.9 and 0.75 as the fraction does.
PercentageOfMax(value, max) ==
    IF max = 0
       THEN IF value = 0 THEN [kind |-> "NaN", num |-> 0, den |-> 1]
                         ELSE [kind |-> "Inf", num |-> 1, den |-> 1]
       ELSE [kind |-> "Finite", num |-> value, den |-> max]

\* percentage >= n / d for floats: false for NaN, true for infinity.
AtLeast(percentage, n, d) ==
    CASE percentage.kind = "NaN" -> FALSE
      [] percentage.kind = "Inf" -> TRUE
      [] percentage.kind = "Finite" ->
            percentage.num * d >= n * percentage.den

\* The if / else if chain of set_value: the messages handed to the messenger.
MessagesFor(percentage) ==
    IF AtLeast(percentage, 1, 1) THEN <<ErrorMessage>>
    ELSE IF AtLeast(percentage, 9, 10) THEN <<UrgentMessage>>
    ELSE IF AtLeast(percentage, 3, 4) THEN <<WarningMessage>>
    ELSE << >>

\* LimitTracker::new(&mock_messenger, max)
TrackerNew(max) ==
    /\ ~trackerMade
    /\ trackerMade' = TRUE
    /\ trackerMax' = max
    /\ trackerValue' = 0
    /\ UNCHANGED <<sentMessages, setArg, setCalls>>
    /\ UNCHANGED outsideTracker

\* LimitTracker::set_value(value), with MockMessenger::send pushing each
\* message onto sent_messages.
SetValue(value) ==
    /\ trackerMade
    /\ setCalls < MaxSets
    /\ trackerValue' = value
    /\ sentMessages' =
          sentMessages \o MessagesFor(PercentageOfMax(value, trackerMax))
    /\ setArg' = value
    /\ setCalls' = setCalls + 1
    /\ UNCHANGED <<trackerMade, trackerMax>>
    /\ UNCHANGED outsideTracker

TrackerNext ==
    \/ \E max \in 0 .. MaxQuota : TrackerNew(max)
    \/ \E value \in 0 .. (MaxQuota + 1) : SetValue(value)

\* A program that makes one LimitTracker over a mock messenger.
TrackerSpec == NoPoolInit /\ [][TrackerNext]_vars

----------------------------------------------------------------------------
TypeOK ==
    /\ size \in 0 .. MaxSize
    /\ poolPc \in {"new_assert", "new_panicked", "new_channel", "new_spawn", "open"}
    /\ wpc \in [WorkerIds -> {"unspawned", "lock", "recv", "match",
                              "exec", "exited", "panicked"}]
    /\ dropPc \in {"idle", "drain", "join", "done", "panicked"}
    /\ mutexHolder \subseteq WorkerIds
    /\ arcCount \in 0 .. (MaxSize + 1)
    /\ Len(kinds) <= MaxTasks
    /\ dropCalls \in 0 .. MaxDropCalls
    /\ postState \in PostStates \cup {"None"}
    /\ Len(postAdded) <= MaxTexts
    /\ postCall \in {"new", "add_text", "request_review", "approve", "content"}
    /\ altKind \in {"DraftPost", "PendingReviewPost", "Post"}
    /\ altCount \in 0 .. MaxTexts
    /\ counterPc \in {"spawn", "join", "assert", "passed", "failed"}
    /\ msgPc \in {"spawn_tx1", "spawn_tx", "recv", "ended"}
    /\ txs \subseteq Transmitters
    /\ trackerMax \in 0 .. MaxQuota
    /\ trackerValue \in 0 .. (MaxQuota + 1)
    /\ setCalls \in 0 .. MaxSets
    /\ counterHolder \subseteq ThreadIds
    /\ tpc \in [ThreadIds -> {"unspawned", "lock", "load", "store", "ended"}]

----------------------------------------------------------------------------
\* Properties of the pool

\* The ids of the pool's worker threads.
PoolWorkers == 0 .. (size - 1)

\* The jobs that execute put into the channel.
Submitted == Range(enqueued)

\* The worker threads that have not ended.
LiveWorkers == {w \in WorkerIds : wpc[w] \notin {"unspawned", "exited", "panicked"}}

\* The jobs whose call has begun and has neither returned nor panicked.
RunningJobs ==
    {t \in TaskIds : started[t] > 0 /\ t \notin Range(finished) \cup panickedJobs}

\* The workers that own job t.
HeldBy(t) == {w \in WorkerIds : message[w] = OkMessage(t)}

Indicator(b) == IF b THEN 1 ELSE 0

\* C1: no task loss.  When drop has returned, every job given to execute has
\* been called and has returned exactly once, and none is left in the buffer
\* or was dropped without being called.
NoTaskLoss ==
    dropPc = "done" =>
        /\ \A t \in 1 .. Len(kinds) :
              /\ started[t] = 1
              /\ Count(finished, t) = 1
        /\ queue = << >>
        /\ discarded = {}
        /\ \A w \in WorkerIds : message[w] = NoMessage

NoTaskLossWitness ==
    /\ dropPc = "done"
    /\ size >= 2
    /\ Len(kinds) >= 2
    /\ Len(finished) = Len(kinds)

\* C2: when drop has returned, every worker thread of the pool has ended.
DropWaitsForWorkers ==
    dropPc = "done" =>
        \A w \in PoolWorkers : wpc[w] \in {"exited", "panicked"}

DropWaitsForWorkersWitness ==
    /\ dropPc = "done"
    /\ size >= 2
    /\ finished # << >>
    /\ Len(joined) = size

\* No closure given to execute runs for ever / none panics.
AllTasksTerminate == \A t \in 1 .. Len(kinds) : kinds[t] # "loop"
NoTaskPanics == \A t \in 1 .. Len(kinds) : kinds[t] # "panic"

\* C3 as stated: if every submitted task terminates, then once drop has
\* released the sender every worker eventually observes the closed channel
\* and leaves its loop, and drop eventually returns.
ShutdownReturnsOriginal ==
    (dropPc # "idle" /\ AllTasksTerminate)
        ~> (dropPc = "done" /\ \A w \in PoolWorkers : wpc[w] = "exited")

\* C3, amended: if every submitted task terminates, then once drop has
\* released the sender every worker thread eventually ends, by observing the
\* closed channel or by the panic of its task, and drop eventually ends; no
\* worker stays blocked in recv or on the mutex.  If no task panics, every
\* worker observes the closed channel and drop returns; otherwise drop
\* panics at a join.
ShutdownTerminates ==
    (dropPc # "idle" /\ AllTasksTerminate)
        ~> (/\ \A w \in PoolWorkers : wpc[w] \in {"exited", "panicked"}
            /\ IF NoTaskPanics
                  THEN /\ dropPc = "done"
                       /\ \A w \in PoolWorkers : wpc[w] = "exited"
                  ELSE dropPc = "panicked")

ShutdownTerminatesWitness ==
    /\ dropPc = "done"
    /\ AllTasksTerminate
    /\ size >= 2
    /\ Len(kinds) >= 2
    /\ \A w \in PoolWorkers : wpc[w] = "exited"

\* The number of places job t is in: the buffer, a worker, or the jobs whose
\* call has ended (it returned or it panicked).
Places(t) ==
    Count(queue, t) + Cardinality(HeldBy(t)) + Count(finished, t)
        + Indicator(t \in panickedJobs)

\* C4 as stated: every submitted job is in exactly one place: the queue, one
\* worker, or finished.
ExclusiveOwnershipOriginal ==
    \A t \in Submitted : Places(t) = 1

\* C4, amended: every submitted job is in exactly one place: the queue, one
\* worker, finished, or destroyed without having run (the buffer is dropped
\* with the receiver when the last worker thread has ended); no job is
\* claimed by two workers, called more than once or put back into the queue.
ExclusiveOwnership ==
    \A t \in Submitted :
        /\ Places(t) + Indicator(t \in discarded) = 1
        /\ Count(enqueued, t) = 1
        /\ Count(claimed, t) <= 1
        /\ started[t] <= 1
        /\ Count(finished, t) <= 1

ExclusiveOwnershipWitness ==
    /\ size >= 2
    /\ \E t1, t2, t3 \in Submitted :
          /\ Count(queue, t1) = 1
          /\ HeldBy(t2) # {}
          /\ Count(finished, t3) = 1

\* C5: at most one worker holds the guard of the receiver mutex; the workers
\* inside recv are the holders, and a worker at the top of its loop takes
\* no step into recv while another holds the guard.
MutualExclusion ==
    /\ Cardinality(mutexHolder) <= 1
    /\ Cardinality({w \in WorkerIds : wpc[w] = "recv"}) <= 1
    /\ \A w \in WorkerIds : wpc[w] = "recv" <=> w \in mutexHolder

MutualExclusionWitness ==
    \E w1, w2 \in WorkerIds :
        /\ w1 # w2
        /\ wpc[w1] = "recv"
        /\ w1 \in mutexHolder
        /\ wpc[w2] = "lock"
        /\ queue = << >>
        /\ finished # << >>

\* C6: in a pool of size K at most K jobs are running at the same time.
BoundedConcurrency ==
    Cardinality(RunningJobs) <= size

BoundedConcurrencyWitness ==
    /\ size >= 2
    /\ Cardinality(RunningJobs) = size

\* C7: the workers take the jobs out of the queue in the order in which
\* execute put them in: the claim history is a prefix of the enqueue history.
FifoClaimOrder ==
    /\ Len(claimed) <= Len(enqueued)
    /\ \A i \in 1 .. Len(claimed) : claimed[i] = enqueued[i]

FifoClaimOrderWitness ==
    /\ size >= 2
    /\ Len(claimed) >= 3
    /\ \E w1, w2 \in WorkerIds : w1 # w2 /\ wpc[w1] = "exec" /\ wpc[w2] = "exec"

\* C8: in a pool of one worker, a job starts only when every job submitted
\* before it has returned, and the jobs return in the order of submission.
SingleWorkerSequential ==
    size = 1 =>
        /\ Len(finished) <= Len(enqueued)
        /\ \A i \in 1 .. Len(finished) : finished[i] = enqueued[i]
        /\ \A i, j \in 1 .. Len(enqueued) :
              (i < j /\ started[enqueued[j]] > 0) => enqueued[i] \in Range(finished)
        /\ Cardinality(RunningJobs) <= 1

SingleWorkerSequentialWitness ==
    /\ size = 1
    /\ Len(finished) >= 2
    /\ RunningJobs # {}

\* C9: ThreadPool::new(0) panics at the assertion, before the channel and
\* before any worker thread exists; new(0) never gets past the assertion.
NewZeroFailsFast ==
    /\ size = 0 => poolPc \in {"new_assert", "new_panicked"}
    /\ poolPc = "new_panicked" =>
          /\ size = 0
          /\ ~chanCreated
          /\ arcCount = 0
          /\ workers = << >>
          /\ \A w \in WorkerIds : wpc[w] = "unspawned"

NewZeroFailsFastWitness ==
    /\ size = 0
    /\ poolPc = "new_panicked"

\* The pool has been constructed and drop has not begun.
PoolOpen == poolPc = "open" /\ dropPc = "idle"

\* C10: new(N), N >= 1, makes exactly the workers 0 .. N-1, each in its
\* claim loop when new returns, all holding a clone of the one receiver Arc;
\* between construction and drop the vec of workers does not change, no
\* thread is spawned and no ended thread runs again.
FixedWorkerSet ==
    /\ [](PoolOpen =>
            /\ size >= 1
            /\ workers = [i \in 1 .. size |-> i - 1]
            /\ \A w \in WorkerIds : w \in PoolWorkers <=> wpc[w] # "unspawned"
            /\ arcCount = Cardinality(LiveWorkers))
    /\ [][poolPc = "new_spawn" /\ poolPc' = "open" =>
            \A w \in PoolWorkers : wpc'[w] \in {"lock", "recv"}]_vars
    /\ [][PoolOpen =>
            /\ PoolOpen' => workers' = workers
            /\ \A w \in WorkerIds :
                  /\ wpc[w] = "unspawned" => wpc'[w] = "unspawned"
                  /\ wpc[w] \in {"exited", "panicked"} => wpc'[w] = wpc[w]]_vars

FixedWorkerSetWitness ==
    /\ PoolOpen
    /\ size >= 2
    /\ Len(workers) = size
    /\ \E w \in PoolWorkers : wpc[w] = "panicked"
    /\ \E w \in PoolWorkers : wpc[w] = "exec"

\* The calls of execute: a step that gives a new job to the pool.
ExecuteReturnsOrPanics == Len(kinds') = Len(kinds) + 1

ExecuteSucceedsWhileOpen ==
    [][(PoolOpen /\ ExecuteReturnsOrPanics)
          => enqueued' = Append(enqueued, Len(kinds'))]_vars

\* C12: before drop begins, a call of execute puts its job into the channel
\* if and only if some worker thread is still alive; when every worker thread
\* has ended (each killed by a panicking job) the Receiver is gone and the
\* call panics.
ExecuteSucceedsWhileWorkerAlive ==
    [][(PoolOpen /\ ExecuteReturnsOrPanics)
          => IF LiveWorkers # {}
               THEN /\ enqueued' = Append(enqueued, Len(kinds'))
                    /\ queue' = Append(queue, Len(kinds'))
                    /\ executePanics' = executePanics
               ELSE /\ executePanics' = executePanics + 1
                    /\ UNCHANGED <<queue, enqueued>>]_vars

ExecuteSucceedsWhileWorkerAliveWitness ==
    /\ PoolOpen
    /\ size = 2
    /\ LiveWorkers = {}
    /\ Cardinality(panickedJobs) = 2
    /\ executePanics = 1

\* C13: execute never blocks.  In every state of an open pool a call of
\* execute can take its step, whatever the length of the buffer, the number
\* of busy workers and the holder of the receiver mutex.
ExecuteNeverBlocks ==
    (PoolOpen /\ Len(kinds) < MaxTasks)
        => ENABLED (\E k \in TaskKinds : Execute(k))

ExecuteNeverBlocksWitness ==
    /\ PoolOpen
    /\ Len(kinds) < MaxTasks
    /\ queue # << >>
    /\ mutexHolder # {}
    /\ \E w \in WorkerIds : wpc[w] = "exec"
    /\ ENABLED (\E k \in TaskKinds : Execute(k))

\* Exactly one of the jobs given to execute panics and the others return.
OnePanickingTask ==
    /\ Cardinality({t \in 1 .. Len(kinds) : kinds[t] = "panic"}) = 1
    /\ AllTasksTerminate

\* C14: panic isolation.  In a pool of two or more workers in which one job
\* has panicked, every other job that is in the channel is eventually called
\* and returns, for as long as no second panicking job and no endless job is
\* given to the pool.
PanicIsolation ==
    (size >= 2 /\ OnePanickingTask /\ panickedJobs # {})
        ~> (\/ \A t \in Submitted : kinds[t] = "ok" => t \in Range(finished)
            \/ ~OnePanickingTask)

PanicIsolationWitness ==
    /\ size >= 2
    /\ OnePanickingTask
    /\ panickedJobs = {1}
    /\ Len(finished) = 2
    /\ queue = << >>

\* The worker threads that a panic has ended.
PanickedWorkers == {w \in WorkerIds : wpc[w] = "panicked"}

\* C15: a panicking job ends exactly the worker that was running it, for
\* good.  The number of ended-by-panic workers equals the number of jobs that
\* have panicked; while the pool has its sender, size minus that number of
\* workers are alive; a worker that a panic has ended never moves or owns a
\* job again; only the worker running the job ends in the step of the panic;
\* and the pool's vec of workers does not grow.
PanicKillsOneWorker ==
    /\ [](poolPc = "open"
            => /\ Cardinality(PanickedWorkers) = Cardinality(panickedJobs)
               /\ senderAlive
                    => Cardinality(LiveWorkers) = size - Cardinality(panickedJobs))
    /\ [][\A w \in WorkerIds :
            /\ wpc[w] = "panicked" => (wpc'[w] = "panicked" /\ message'[w] = message[w])
            /\ (wpc[w] # "panicked" /\ wpc'[w] = "panicked")
                 => /\ wpc[w] = "exec"
                    /\ \A v \in WorkerIds \ {w} : wpc'[v] = wpc[v]]_vars
    /\ [][poolPc = "open" => Len(workers') <= Len(workers)]_vars

PanicKillsOneWorkerWitness ==
    /\ PoolOpen
    /\ size = 2
    /\ Cardinality(panickedJobs) = 1
    /\ Cardinality(LiveWorkers) = 1
    /\ \E w \in LiveWorkers : wpc[w] = "exec"

\* C16: worker exit guard.  A worker gets the disconnected result, and has
\* left its loop, only when the pool has dropped its sender (drop has begun)
\* and the buffer is empty; it leaves its loop only from the match on that
\* result, so never while it owns a job.
WorkerExitGuard ==
    /\ [](\A w \in WorkerIds :
            (wpc[w] = "exited" \/ message[w] = ErrMessage)
                => (~senderAlive /\ dropPc # "idle" /\ queue = << >>))
    /\ [][\A w \in WorkerIds :
            (wpc[w] # "exited" /\ wpc'[w] = "exited")
                => (wpc[w] = "match" /\ message[w] = ErrMessage)]_vars

WorkerExitGuardWitness ==
    /\ size = 2
    /\ \A w \in PoolWorkers : wpc[w] = "exited"
    /\ Len(finished) >= 2

ShutdownOrdering ==
    /\ dropPc # "idle" => ~senderAlive
    /\ dropPc = "idle" => (joined = << >> /\ draining = << >>)
    /\ \A i \in 1 .. Len(joined) : joined[i] = i - 1
    /\ \A i \in 1 .. Len(draining) : draining[i] = Len(joined) + i - 1

ShutdownOrderingWitness ==
    /\ dropPc = "done"
    /\ joined = <<0, 1>>
    /\ finished # << >>

\* C20: the receiver mutex is not held while a job runs.  A worker holds the
\* mutex only inside recv; and while one worker is running a job, a worker
\* that wants the mutex can take it unless another worker is inside recv.
LockNotHeldDuringJob ==
    /\ \A w \in WorkerIds : w \in mutexHolder => wpc[w] = "recv"
    /\ \A w, v \in WorkerIds :
          (wpc[w] = "exec" /\ wpc[v] = "lock"
              /\ \A u \in WorkerIds : wpc[u] # "recv")
             => ENABLED Lock(v)

\* Two jobs are running at the same time, the second claimed while the
\* first was running or waiting to run.
LockNotHeldDuringJobWitness ==
    \E w, v \in WorkerIds :
        /\ wpc[w] = "exec" /\ wpc[v] = "exec"
        /\ message[w].job < message[v].job
        /\ mutexHolder = {}

\* C21: no completion ordering.  Whenever two workers are each running a
\* job that returns, either job can return next: the return of the job that
\* was submitted first does not wait for the other, nor the other for it.
NoCompletionOrdering ==
    \A w, v \in WorkerIds :
        (w # v /\ wpc[w] = "exec" /\ wpc[v] = "exec"
             /\ kinds[message[w].job] = "ok" /\ kinds[message[v].job] = "ok")
            => (ENABLED FinishJob(w) /\ ENABLED FinishJob(v))

\* Job 2 has returned before job 1, which was submitted first, and job 3
\* after it.
NoCompletionOrderingWitness ==
    /\ size >= 2
    /\ finished = <<2, 1, 3>>

\* The jobs that have been called and have returned or panicked.
Executed == Range(finished) \cup panickedJobs

\* C22: progress while open.  While every job given to the pool terminates
\* and not every worker thread has been ended by a panic, every job that
\* execute has put into the channel is eventually claimed and called and
\* terminates, whether or not the pool is ever dropped.
ProgressWhileOpen ==
    (poolPc = "open" /\ AllTasksTerminate)
        ~> (\/ Submitted \subseteq Executed
            \/ Cardinality(PanickedWorkers) = size
            \/ ~AllTasksTerminate)

ProgressWhileOpenWitness ==
    /\ PoolOpen
    /\ AllTasksTerminate
    /\ Len(enqueued) = MaxTasks
    /\ Submitted \subseteq Executed
    /\ panickedJobs # {}
    /\ LiveWorkers # {}

\* C23: the receiver mutex is never poisoned.  No worker owns the guard
\* while it runs a job or after its thread has ended, and a thread ends by
\* panic only out of job(), so lock().unwrap() never panics.
MutexNeverPoisoned ==
    /\ [](~poisoned)
    /\ [](\A w \in mutexHolder : wpc[w] \notin {"exec", "exited", "panicked"})
    /\ [][\A w \in WorkerIds : wpc[w] = "lock" => wpc'[w] \in {"lock", "recv"}]_vars

MutexNeverPoisonedWitness ==
    /\ ~poisoned
    /\ panickedJobs # {}
    /\ \E w \in WorkerIds : wpc[w] = "recv" /\ w \in mutexHolder
    /\ \E v \in WorkerIds : wpc[v] = "panicked"

\* C24: drop after a task panic.  drop ends by panic exactly at the join of
\* a worker whose thread a panic has ended; the workers with smaller ids
\* have been joined and ended normally, so that worker is the lowest such
\* one; no worker with a larger id is joined then or later; and drop returns
\* only when no worker's thread was ended by a panic.
DropPanicsAtFirstPanicked ==
    /\ [](dropPc = "panicked"
            => /\ Len(joined) < size
               /\ wpc[Len(joined)] = "panicked"
               /\ \A i \in 1 .. Len(joined) :
                     joined[i] = i - 1 /\ wpc[i - 1] = "exited")
    /\ [](dropPc = "done" => PanickedWorkers = {})
    /\ [](dropPc = "join" /\ draining # << >> /\ wpc[Head(draining)] = "panicked"
            => ENABLED DropJoin)
    /\ [][dropPc = "panicked" => (dropPc' = "panicked" /\ joined' = joined)]_vars

\* drop has unwound at the join of worker 0 while worker 1 is running a job.
DropPanicsAtFirstPanickedWitness ==
    /\ dropPc = "panicked"
    /\ joined = << >>
    /\ wpc[0] = "panicked"
    /\ size >= 2
    /\ wpc[1] = "exec"

----------------------------------------------------------------------------
\* Properties of the blog post

\* The texts of a sequence, one after the other.
RECURSIVE Concat(_)
Concat(texts) ==
    IF texts = << >> THEN << >> ELSE Head(texts) \o Concat(Tail(texts))

\* What content() is to return: nothing before publication, and afterwards
\* all the text added so far.
VisibleContent ==
    IF postState = "Published" THEN Concat(postAdded) ELSE << >>

\* C18: content visibility.  After every sequence of add_text, request_review
\* and approve, Post::content gives the empty string while the post is Draft
\* or PendingReview and the concatenation of all text added so far once it is
\* Published; and every call of content returns just that.
ContentVisibility ==
    /\ [](postState \in PostStates)
    /\ [](StateContent(postState, postContent) = VisibleContent)
    /\ [][postRead' # postRead => postRead' = Returned(VisibleContent)]_vars

ContentVisibilityWitness ==
    /\ postState = "Published"
    /\ Len(postAdded) >= 2
    /\ Concat(postAdded) = <<"a", "b", "c">>
    /\ postRead = Returned(<<"a", "b", "c">>)

\* C25: transition relation of the blog post.  The state changes only from
\* Draft to PendingReview, by request_review, and from PendingReview to
\* Published, by approve, and these two calls always make these changes;
\* every other call leaves the state as it is, so Published is absorbing and
\* is entered from PendingReview only.
PostTransitions ==
    /\ [][postState' # postState
            => \/ /\ postState = "Draft" /\ postState' = "PendingReview"
                  /\ postCall' = "request_review"
               \/ /\ postState = "PendingReview" /\ postState' = "Published"
                  /\ postCall' = "approve"]_vars
    /\ [][(postState = "Draft" /\ postCall' = "request_review")
            => postState' = "PendingReview"]_vars
    /\ [][(postState = "PendingReview" /\ postCall' = "approve")
            => postState' = "Published"]_vars
    /\ [][postState = "Published" => postState' = "Published"]_vars

\* A published post on which approve and then request_review were called
\* again.
PostTransitionsWitness ==
    /\ postState = "Published"
    /\ postCall = "request_review"
    /\ postAdded # << >>

\* C27: the state of the post is Some after every call, and no call of
\* content has panicked at its unwrap.
PostStateIsSome ==
    /\ postState # "None"
    /\ postRead # ReadPanicked

PostStateIsSomeWitness ==
    /\ postState = "Published"
    /\ postCall = "content"
    /\ postRead = Returned(postContent)
    /\ postContent # << >>

\* C26: the two implementations agree.  When the type-state post has been
\* given the same texts as the trait-object post and both have been through
\* request_review and approve, content gives the same string on both; and
\* the type-state post has given content only as a Post, the value that
\* approve returns.
PostsAgree ==
    /\ (altKind = "Post" /\ postState = "Published" /\ altCount = Len(postAdded))
          => /\ altContent = StateContent(postState, postContent)
             /\ altContent = Concat(postAdded)
    /\ altRead # NotRead => altKind = "Post"
    /\ (altRead # NotRead /\ altCount > 0)
          => altRead = Returned(Concat(SubSeq(postAdded, 1, altCount)))

PostsAgreeWitness ==
    /\ altKind = "Post"
    /\ postState = "Published"
    /\ altCount = Len(postAdded)
    /\ altCount >= 2
    /\ altRead = postRead
    /\ altRead = Returned(<<"a", "b", "c">>)

----------------------------------------------------------------------------
\* Properties of the other programs

\* C28: no lost update.  Once main has joined every thread the counter
\* equals the number of threads, so the assertion passes; and at every moment
\* the counter equals the number of threads that have done their increment.
NoLostUpdate ==
    /\ counterPc \in {"assert", "passed", "failed"} => counter = NumThreads
    /\ counterPc # "failed"
    /\ counter = Cardinality({i \in ThreadIds : tpc[i] = "ended"})

NoLostUpdateWitness ==
    /\ counterPc = "passed"
    /\ handlesJoined = NumThreads
    /\ counter = NumThreads

\* The messages of transmitter p among the messages of a sequence, in order.
From(p, msgs) == SelectSeq(msgs, LAMBDA m : m \in Range(Vals[p]))

\* C29: multi-producer channel.  What the loop has received of each
\* transmitter is, in order, what that transmitter's thread has sent and has
\* left the buffer, each message once; the loop ends only when both
\* transmitters have been dropped, and then it has received all the
\* messages of both; and the loop does end.
MultiProducer ==
    /\ [](\A p \in Transmitters :
            From(p, received) \o From(p, msgBuffer)
                = SubSeq(Vals[p], 1, sentCount[p]))
    /\ [](Len(received) + Len(msgBuffer) = sentCount["tx1"] + sentCount["tx"])
    /\ [](msgPc = "ended"
            => /\ txs = {}
               /\ Len(received) = Len(Vals["tx1"]) + Len(Vals["tx"])
               /\ \A p \in Transmitters : From(p, received) = Vals[p])
    /\ <>(msgPc = "ended")

\* The loop has ended after messages of the two threads arrived interleaved.
MultiProducerWitness ==
    /\ msgPc = "ended"
    /\ Len(received) = 8
    /\ received[1] = "more"
    /\ received[2] = "hi"
    /\ received[8] = "thread"

\* The message the claim names for a value and a maximum: the one of the
\* highest threshold that the value has reached.
MessagesByThreshold(value, max) ==
    IF value >= max THEN <<ErrorMessage>>
    ELSE IF 10 * value >= 9 * max THEN <<UrgentMessage>>
    ELSE IF 4 * value >= 3 * max THEN <<WarningMessage>>
    ELSE << >>

SetValueMessagesPositiveMax ==
    [][(setCalls' = setCalls + 1 /\ trackerMax > 0)
          => /\ trackerValue' = setArg'
             /\ sentMessages'
                  = sentMessages \o MessagesByThreshold(setArg', trackerMax)]_vars

====
